---- MODULE Spec2Model ----
(***************************************************************************)
(* Model of report_generator.py: the four report transforms                *)
(* (group_by_report, case_report_multiple_conditions, pivot_report,        *)
(* unpivot_report / unpivot_report_from_pivot) applied by main to the      *)
(* DataFrame the query returned.                                           *)
(*                                                                         *)
(* A DataFrame is a heap object (so that "same object" is expressible):    *)
(*   [columns : sequence of column names, name : name of the columns axis, *)
(*    index : sequence of row labels, data : sequence of rows], a row      *)
(*   being a function from column name to cell.                            *)
(* A cell is a tagged value: a number, a string or NaN/None.  Floats are   *)
(* modelled by integers.                                                   *)
(*                                                                         *)
(* pandas and numpy are modelled by what the calls of the source do:       *)
(*   - np.select is taken to accept string choices next to the column as   *)
(*     default (the element keeps the column's cell where no condition     *)
(*     holds);                                                             *)
(*   - groupby sorts the keys, NaN last, and keeps NaN keys only with      *)
(*     dropna=False; sum skips NaN and is 0 over no values;                *)
(*   - pivot_table groups with dropna=True and leaves absent cells NaN;    *)
(*   - melt is given identifier and value columns that are distinct.       *)
(* Rule thresholds are well-formed numbers, and no cell of the column that *)
(* becomes the pivot's header equals the name of the index column.         *)
(***************************************************************************)
EXTENDS Integers, Sequences, FiniteSets, TLC

VARIABLES heap, df, original_df, pivot_df, report_df, pc, cfg, error

vars == <<heap, df, original_df, pivot_df, report_df, pc, cfg, error>>

-----------------------------------------------------------------------------
(* Bounds *)

MaxRows == 3
MaxRecodeRows == 3
MaxRules == 2

-----------------------------------------------------------------------------
(* Cells *)

Num(n) == [t |-> "num", n |-> n, s |-> ""]
Str(s) == [t |-> "str", n |-> 0, s |-> s]
NaN == [t |-> "null", n |-> 0, s |-> ""]

isna(v) == v.t = "null"

None == 0
NoError == "none"

\* the exceptions the transforms end with
KeyError == "KeyError"
AttributeError == "AttributeError"
ConvertError == "ValueError: could not convert string to float"
SelectError == "ValueError: select with an empty condition list is not possible"

-----------------------------------------------------------------------------
(* Python str / float *)

startswith(value, prefix) ==
    /\ Len(value) >= Len(prefix)
    /\ SubSeq(value, 1, Len(prefix)) = prefix

Digits == "0123456789"

IsDigit(c) == \E i \in 1..Len(Digits) : SubSeq(Digits, i, i) = c

DigitVal(c) == (CHOOSE i \in 1..Len(Digits) : SubSeq(Digits, i, i) = c) - 1

RECURSIVE DigitsVal(_, _)
DigitsVal(s, acc) ==
    IF Len(s) = 0 THEN acc
    ELSE DigitsVal(SubSeq(s, 2, Len(s)), 10 * acc + DigitVal(SubSeq(s, 1, 1)))

\* float(s) for the literals an integer model can hold: an optional sign
\* followed by one or more decimal digits; anything else raises ValueError.
Unsigned(s) == IF startswith(s, "-") \/ startswith(s, "+") THEN SubSeq(s, 2, Len(s)) ELSE s

IsFloatLiteral(s) ==
    /\ Len(Unsigned(s)) > 0
    /\ \A i \in 1..Len(Unsigned(s)) : IsDigit(SubSeq(Unsigned(s), i, i))

float(s) ==
    IF startswith(s, "-") THEN 0 - DigitsVal(Unsigned(s), 0) ELSE DigitsVal(Unsigned(s), 0)

-----------------------------------------------------------------------------
(* pandas Series / DataFrame basics *)

RangeIndex(n) == [i \in 1..n |-> i - 1]

DataFrame(columns, name, index, data) ==
    [columns |-> columns, name |-> name, index |-> index, data |-> data]

Range(seq) == {seq[i] : i \in DOMAIN seq}

\* df[col] : the column as a sequence of cells
Column(t, col) == [i \in DOMAIN t.data |-> t.data[i][col]]

\* Series.astype(float), cell by cell: numbers stay, None/NaN becomes nan,
\* strings go through float().
Coercible(v) == v.t # "str" \/ IsFloatLiteral(v.s)

astype_float(series) ==
    [i \in DOMAIN series |->
        IF series[i].t = "str" THEN Num(float(series[i].s)) ELSE series[i]]

\* heap allocation: a new object holding t
alloc(h, t) == [heap |-> Append(h, t), ret |-> Len(h) + 1, err |-> NoError]

raise(h, e) == [heap |-> h, ret |-> None, err |-> e]

\* "return r" of a transform whose library call gave r: the exception of the
\* call propagates, else the new frame is returned
return(h, r) == IF r.err # NoError THEN raise(h, r.err) ELSE alloc(h, r.table)

\* DataFrame.copy()
copy(h, ref) == alloc(h, h[ref])

-----------------------------------------------------------------------------
(* case_report_multiple_conditions *)

\* one comparison of a float series against a threshold; nan compares False
CompareOp(op, x, y) ==
    CASE op = ">=" -> x >= y
      [] op = "<=" -> x <= y
      [] op = "<"  -> x < y
      [] op = ">"  -> x > y

\* variant: a cell that does not convert is treated as nan instead of raising
NumericConditionCoerce(series, op, literal) ==
    IF ~IsFloatLiteral(literal) THEN [err |-> ConvertError, mask |-> <<>>]
    ELSE [err |-> NoError,
          mask |-> [i \in DOMAIN series |->
                      /\ Coercible(series[i])
                      /\ ~isna(series[i])
                      /\ CompareOp(op, IF series[i].t = "str" THEN float(series[i].s) ELSE series[i].n,
                                   float(literal))]]

NumericCondition(series, op, literal) ==
    IF \E i \in DOMAIN series : ~Coercible(series[i]) THEN [err |-> ConvertError, mask |-> <<>>]
    ELSE IF ~IsFloatLiteral(literal) THEN [err |-> ConvertError, mask |-> <<>>]
    ELSE [err |-> NoError,
          mask |-> [i \in DOMAIN series |->
                      /\ ~isna(astype_float(series)[i])
                      /\ CompareOp(op, astype_float(series)[i].n, float(literal))]]

\* lines 61-70: the boolean vector of one rule key over the column
Condition(series, value) ==
    IF startswith(value, ">=") THEN NumericCondition(series, ">=", SubSeq(value, 3, Len(value)))
    ELSE IF startswith(value, "<=") THEN NumericCondition(series, "<=", SubSeq(value, 3, Len(value)))
    ELSE IF startswith(value, "<") THEN NumericCondition(series, "<", SubSeq(value, 2, Len(value)))
    ELSE IF startswith(value, ">") THEN NumericCondition(series, ">", SubSeq(value, 2, Len(value)))
    ELSE [err |-> NoError, mask |-> [i \in DOMAIN series |-> series[i] = Str(value)]]

\* lines 57-72: condition_list and result_list of one column; the first rule
\* whose evaluation raises ends the loop
RECURSIVE ConditionLists(_, _, _, _)
AppendCondition(c, series, condition_map, k, acc) ==
    IF c.err # NoError THEN [acc EXCEPT !.err = c.err]
    ELSE ConditionLists(series, condition_map, k + 1,
            [acc EXCEPT !.condition_list = Append(@, c.mask),
                        !.result_list = Append(@, Str(condition_map[k][2]))])

ConditionLists(series, condition_map, k, acc) ==
    IF k > Len(condition_map) THEN acc
    ELSE AppendCondition(Condition(series, condition_map[k][1]), series, condition_map, k, acc)

\* variant: the last condition that is True
LastTrue(condlist, i, j) ==
    IF \A k \in j..Len(condlist) : ~condlist[k][i] THEN 0
    ELSE CHOOSE k \in j..Len(condlist) :
            condlist[k][i] /\ \A k2 \in (k + 1)..Len(condlist) : ~condlist[k2][i]

\* np.select: per element, the choice of the first condition that is True,
\* else the default
RECURSIVE FirstTrue(_, _, _)
FirstTrue(condlist, i, j) ==
    IF j > Len(condlist) THEN 0
    ELSE IF condlist[j][i] THEN j
    ELSE FirstTrue(condlist, i, j + 1)

Choice(j, choicelist, default) == IF j = 0 THEN default ELSE choicelist[j]

np_select(condlist, choicelist, default) ==
    [i \in DOMAIN default |-> Choice(FirstTrue(condlist, i, 1), choicelist, default[i])]

\* variant: np.all(condition_list, axis=0)
np_all(condlist, n) == [i \in 1..n |-> \A j \in DOMAIN condlist : condlist[j][i]]

\* np.any(condition_list, axis=0)
np_any(condlist, n) == [i \in 1..n |-> \E j \in DOMAIN condlist : condlist[j][i]]

\* variant: the values are written to the first column of the frame
SetFirstColumn(t, col, values) ==
    [t EXCEPT !.data = [i \in DOMAIN t.data |-> [t.data[i] EXCEPT ![t.columns[1]] = values[i]]]]

\* result_df[col] = values  (in place)
SetColumn(t, col, values) ==
    [t EXCEPT !.data = [i \in DOMAIN t.data |-> [t.data[i] EXCEPT ![col] = values[i]]]]

\* result_df[filter_mask]: the rows, with their labels, where the mask is True
Take(t, keep) ==
    [t EXCEPT !.index = [p \in DOMAIN keep |-> t.index[keep[p]]],
              !.data = [p \in DOMAIN keep |-> t.data[keep[p]]]]

BooleanIndex(t, mask) ==
    Take(t, SelectSeq([i \in DOMAIN mask |-> i], LAMBDA i : mask[i]))

\* line 74-75: the column is replaced in place and the mask narrowed, unless
\* building the lists raised or np.select got no condition
AssignColumn(h, result_df, filter_mask, col, lists) ==
    IF lists.err # NoError THEN [heap |-> h, mask |-> filter_mask, err |-> lists.err]
    ELSE IF Len(lists.condition_list) = 0 THEN [heap |-> h, mask |-> filter_mask, err |-> SelectError]
    ELSE [heap |-> [h EXCEPT ![result_df] =
                       SetColumn(@, col, np_select(lists.condition_list, lists.result_list,
                                                   Column(@, col)))],
          mask |-> [i \in DOMAIN filter_mask |->
                      filter_mask[i] /\ np_any(lists.condition_list, Len(filter_mask))[i]],
          err |-> NoError]

\* lines 56-75: one iteration of the loop over conditions_dict.items(), on the
\* object result_df of heap h
RecodeColumn(h, result_df, filter_mask, col, condition_map) ==
    IF col \notin Range(h[result_df].columns) THEN [heap |-> h, mask |-> filter_mask, err |-> KeyError]
    ELSE AssignColumn(h, result_df, filter_mask, col,
            ConditionLists(Column(h[result_df], col), condition_map, 1,
                           [err |-> NoError, condition_list |-> <<>>, result_list |-> <<>>]))

RECURSIVE RecodeLoop(_, _, _, _)
NextColumn(r, result_df, conditions_dict, k) ==
    IF r.err # NoError THEN r
    ELSE RecodeLoop(r, result_df, conditions_dict, k + 1)

\* lines 56-75: the loop, r holding the heap and the mask so far
RecodeLoop(r, result_df, conditions_dict, k) ==
    IF k > Len(conditions_dict) THEN r
    ELSE NextColumn(RecodeColumn(r.heap, result_df, r.mask,
                                 conditions_dict[k][1], conditions_dict[k][2]),
                    result_df, conditions_dict, k)

\* lines 77-78: result_df[filter_mask] is a new frame
FilterRows(loop, result_df) ==
    IF loop.err # NoError THEN raise(loop.heap, loop.err)
    ELSE alloc(loop.heap, BooleanIndex(loop.heap[result_df], loop.mask))

case_report_multiple_conditions(h, d, conditions_dict) ==
    IF Len(conditions_dict) = 0 THEN [heap |-> h, ret |-> d, err |-> NoError]
    ELSE FilterRows(RecodeLoop([heap |-> copy(h, d).heap,
                                mask |-> [i \in DOMAIN h[d].data |-> TRUE],
                                err |-> NoError],
                               copy(h, d).ret, conditions_dict, 1),
                    copy(h, d).ret)

-----------------------------------------------------------------------------
(* Ordering of cells, used where pandas sorts group keys *)

Alphabet == "0123456789ABCDEFGHIJKLMNOPQRSTUVWXYZabcdefghijklmnopqrstuvwxyz"

CharRank(c) == CHOOSE i \in 1..Len(Alphabet) : SubSeq(Alphabet, i, i) = c

RECURSIVE StrLess(_, _)
StrLess(a, b) ==
    IF Len(b) = 0 THEN FALSE
    ELSE IF Len(a) = 0 THEN TRUE
    ELSE IF SubSeq(a, 1, 1) # SubSeq(b, 1, 1)
         THEN CharRank(SubSeq(a, 1, 1)) < CharRank(SubSeq(b, 1, 1))
    ELSE StrLess(SubSeq(a, 2, Len(a)), SubSeq(b, 2, Len(b)))

\* sort order of the cells of one column: numbers by value, strings
\* lexicographically, NaN last
CellLess(a, b) ==
    IF isna(a) THEN FALSE
    ELSE IF isna(b) THEN TRUE
    ELSE IF a.t = "num" THEN a.n < b.n
    ELSE StrLess(a.s, b.s)

RECURSIVE KeyLess(_, _)
KeyLess(k1, k2) ==
    IF Len(k1) = 0 THEN FALSE
    ELSE IF Head(k1) # Head(k2) THEN CellLess(Head(k1), Head(k2))
    ELSE KeyLess(Tail(k1), Tail(k2))

\* the keys of S in ascending order
SortKeys(S) ==
    [p \in 1..Cardinality(S) |->
        CHOOSE x \in S : Cardinality({y \in S : KeyLess(y, x)}) = p - 1]

-----------------------------------------------------------------------------
(* group_by_report : df.groupby(by, dropna=False)[cols].agg(funcs) *)

AggFuncs == {"sum", "count", "min", "max"}

RECURSIVE SumCells(_)
SumCells(cells) ==
    IF Len(cells) = 0 THEN 0
    ELSE (IF isna(Head(cells)) THEN 0 ELSE Head(cells).n) + SumCells(Tail(cells))

NotNa(cells) == {i \in DOMAIN cells : ~isna(cells[i])}

\* the aggregations skip NaN; sum of no values is 0, min and max of no
\* values are NaN
Aggregate(func, cells) ==
    CASE func = "sum" -> Num(SumCells(cells))
      [] func = "count" -> Num(Cardinality(NotNa(cells)))
      [] func = "min" -> IF NotNa(cells) = {} THEN NaN
                         ELSE cells[CHOOSE i \in NotNa(cells) : \A j \in NotNa(cells) : cells[i].n <= cells[j].n]
      [] func = "max" -> IF NotNa(cells) = {} THEN NaN
                         ELSE cells[CHOOSE i \in NotNa(cells) : \A j \in NotNa(cells) : cells[i].n >= cells[j].n]

GroupKey(row, by) == [j \in DOMAIN by |-> row[by[j]]]

HasNa(key) == \E j \in DOMAIN key : isna(key[j])

\* the group keys of the frame; dropna=True leaves out keys holding NaN
GroupKeys(t, by, dropna) ==
    {key \in {GroupKey(t.data[i], by) : i \in DOMAIN t.data} : dropna => ~HasNa(key)}

\* the cells of column col in the rows of one group, in row order
GroupCells(t, by, key, col) ==
    Column([data |-> SelectSeq(t.data, LAMBDA row : GroupKey(row, by) = key)], col)

\* one row per group key of index, one column per aggregated column
Aggregated(t, by, columns, funcs, index) ==
    DataFrame(columns, "", index,
        [p \in DOMAIN index |->
            [c \in Range(columns) |-> Aggregate(funcs[c], GroupCells(t, by, index[p], c))]])

\* DataFrame.groupby(by, dropna=dropna)[cols].agg(funcs): the group keys,
\* sorted, become the index
groupby_agg(t, by, cols, funcs, dropna) ==
    IF ~(Range(by) \subseteq Range(t.columns)) THEN [err |-> KeyError, table |-> <<>>]
    ELSE IF ~(Range(cols) \subseteq Range(t.columns)) THEN [err |-> KeyError, table |-> <<>>]
    ELSE IF ~(DOMAIN funcs \subseteq Range(cols)) THEN [err |-> KeyError, table |-> <<>>]
    ELSE IF \E c \in DOMAIN funcs : funcs[c] \notin AggFuncs THEN [err |-> AttributeError, table |-> <<>>]
    ELSE [err |-> NoError,
          table |-> Aggregated(t, by, SelectSeq(cols, LAMBDA c : c \in DOMAIN funcs), funcs,
                               SortKeys(GroupKeys(t, by, dropna)))]

\* variant: groupby with the default dropna=True
group_by_report_dropna(h, d, group_by_columns, aggregation_columns, aggregation_funcs) ==
    return(h, groupby_agg(h[d], group_by_columns, aggregation_columns, aggregation_funcs, TRUE))

\* variant: an exception of groupby is swallowed and an empty report returned
group_by_report_swallow(h, d, group_by_columns, aggregation_columns, aggregation_funcs) ==
    alloc(h, DataFrame(<<>>, "", <<>>, <<>>))

group_by_report(h, d, group_by_columns, aggregation_columns, aggregation_funcs) ==
    return(h, groupby_agg(h[d], group_by_columns, aggregation_columns, aggregation_funcs, FALSE))

-----------------------------------------------------------------------------
(* pivot_report : df.pivot_table(index, columns, values, aggfunc='sum'),   *)
(* then reset_index(inplace=True)                                          *)

\* the label a cell gives to the column made from it
Label(v) == v.s

\* pivot_table groups by [index, columns] with the default dropna=True, sums
\* the value column and unstacks the columns level; a missing (index,
\* columns) pair is NaN
\* variant: pivot_table(..., fill_value=0)
FillZero == Num(0)

FillValue == NaN

\* the column whose label is c
Labelled(cols, c) == cols[CHOOSE j \in DOMAIN cols : Label(cols[j][1]) = c][1]

\* the aggregated value of a group key, or the fill value when there is none
Cell(agged, key, values) ==
    IF key \in Range(agged.index)
    THEN agged.data[CHOOSE p \in DOMAIN agged.index : agged.index[p] = key][values]
    ELSE FillValue

\* unstack: the second key level becomes the columns
Unstack(agged, columns, values, rows, cols) ==
    DataFrame([j \in DOMAIN cols |-> Label(cols[j][1])], columns,
        [p \in DOMAIN rows |-> rows[p][1]],
        [p \in DOMAIN rows |->
            [c \in {Label(cols[j][1]) : j \in DOMAIN cols} |->
                Cell(agged, <<rows[p][1], Labelled(cols, c)>>, values)]])

Pivoted(agged, columns, values) ==
    IF agged.err # NoError THEN agged
    ELSE [err |-> NoError,
          table |-> Unstack(agged.table, columns, values,
                            SortKeys({<<key[1]>> : key \in Range(agged.table.index)}),
                            SortKeys({<<key[2]>> : key \in Range(agged.table.index)}))]

\* pivot_table groups by [index, columns] with the default dropna=True, sums
\* the value column and unstacks the columns level; a missing (index,
\* columns) pair is NaN
pivot_table(t, index, columns, values) ==
    Pivoted(groupby_agg(t, <<index, columns>>, <<values>>, [c \in {values} |-> "sum"], TRUE),
            columns, values)

\* DataFrame.reset_index(): the index becomes the leading column named
\* index_name and the rows are numbered anew
reset_index(t, index_name) ==
    DataFrame(<<index_name>> \o t.columns, t.name, RangeIndex(Len(t.index)),
              [p \in DOMAIN t.data |->
                  [c \in {index_name} \cup Range(t.columns) |->
                      IF c = index_name THEN t.index[p] ELSE t.data[p][c]]])

\* reset_index(inplace=True) on the frame just returned
ResetReturned(new, index) ==
    IF new.err # NoError THEN new
    ELSE [new EXCEPT !.heap[new.ret] = reset_index(@, index)]

pivot_report(h, d, index, columns, values) ==
    ResetReturned(return(h, pivot_table(h[d], index, columns, values)), index)

-----------------------------------------------------------------------------
(* unpivot_report / unpivot_report_from_pivot : melt *)

\* variant: value_vars is ignored and every column that is not an identifier
\* is melted
melt_all(t, id_vars, value_vars) ==
    IF ~(Range(id_vars) \cup Range(value_vars) \subseteq Range(t.columns))
    THEN [err |-> KeyError, table |-> <<>>]
    ELSE LET N == Len(t.data)
             rest == SelectSeq(t.columns, LAMBDA c : c \notin Range(id_vars))
             K == Len(rest)
             var_name == IF t.name # "" THEN t.name ELSE "variable"
         IN [err |-> NoError,
             table |-> DataFrame(id_vars \o <<var_name, "value">>, "", RangeIndex(N * K),
                          [p \in 1..(N * K) |->
                              [c \in Range(id_vars) \cup {var_name, "value"} |->
                                  IF c = var_name THEN Str(rest[((p - 1) \div N) + 1])
                                  ELSE IF c = "value"
                                       THEN t.data[((p - 1) % N) + 1][rest[((p - 1) \div N) + 1]]
                                  ELSE t.data[((p - 1) % N) + 1][c]]])]

\* pd.melt(frame, id_vars, value_vars): for each value column in turn, one
\* row per row of the frame
melt(t, id_vars, value_vars) ==
    IF ~(Range(id_vars) \cup Range(value_vars) \subseteq Range(t.columns))
    THEN [err |-> KeyError, table |-> <<>>]
    ELSE LET N == Len(t.data)
             K == Len(value_vars)
             var_name == IF t.name # "" THEN t.name ELSE "variable"
         IN [err |-> NoError,
             table |-> DataFrame(id_vars \o <<var_name, "value">>, "", RangeIndex(N * K),
                          [p \in 1..(N * K) |->
                              [c \in Range(id_vars) \cup {var_name, "value"} |->
                                  IF c = var_name THEN Str(value_vars[((p - 1) \div N) + 1])
                                  ELSE IF c = "value"
                                       THEN t.data[((p - 1) % N) + 1][value_vars[((p - 1) \div N) + 1]]
                                  ELSE t.data[((p - 1) % N) + 1][c]]])]

unpivot_report(h, d, id_vars, value_vars) ==
    return(h, melt(h[d], id_vars, value_vars))

\* variant: id_vars is not intersected with the columns of the frame
unpivot_report_from_pivot_strict(h, d, id_vars, value_vars) ==
    return(h, melt(h[d], id_vars, value_vars))

unpivot_report_from_pivot(h, d, id_vars, value_vars) ==
    return(h, melt(h[d], SelectSeq(id_vars, LAMBDA col : col \in Range(h[d].columns)), value_vars))

-----------------------------------------------------------------------------
(* The DataFrames execute_query may return, and what the user may enter *)

Frames(columns, Rows, n) ==
    {DataFrame(columns, "", RangeIndex(Len(d)), d) :
        d \in UNION {[1..m -> Rows] : m \in 0..n}}

\* a long table: index-like column k, header-like column c, numeric column v
ShapeRows == [k : {Str("a"), Str("b")}, c : {Str("x"), Str("y"), NaN}, v : {Num(2), NaN}]

ShapeFrames == Frames(<<"k", "c", "v">>, ShapeRows, MaxRows)

\* a table to recode: a string column and a column of numbers, numeric
\* strings, other strings and NULLs
RecodeRows == [color : {Str("Black"), Str("Red")},
               speed : {Num(600), Str("100"), Str("fast"), NaN}]

RecodeFrames == Frames(<<"color", "speed">>, RecodeRows, MaxRecodeRows)

\* rules the user may enter for a column, as (value, result) pairs
RulePool == [color |-> {<<"Black", "Dark">>, <<"Silver", "Light">>},
             speed |-> {<<">500", "High">>, <<">=0", "Low">>, <<"<=500", "Slow">>}]

\* a condition map is a dict: its keys are distinct, its order the order of entry
ConditionMaps(pool, n) ==
    UNION {{m \in [1..len -> pool] : \A i, j \in 1..len : m[i][1] = m[j][1] => i = j} :
              len \in 0..n}

\* conditions_dict over some of the columns cols (a sequence), in that order,
\* each with rules of its pool, or over a column the table does not have
ConditionsDicts(cols, pools, n) ==
    UNION {{[i \in DOMAIN SelectSeq(cols, LAMBDA c : c \in S) |->
                <<SelectSeq(cols, LAMBDA c : c \in S)[i],
                  f[SelectSeq(cols, LAMBDA c : c \in S)[i]]>>] :
             f \in {g \in [S -> UNION {ConditionMaps(pools[c], n) : c \in S}] :
                       \A c \in S : g[c] \in ConditionMaps(pools[c], n)}} :
           S \in SUBSET Range(cols)}
    \cup {<< <<"nope", <<CHOOSE r \in pools[cols[1]] : TRUE>> >> >>}

RecodeDicts == ConditionsDicts(<<"color", "speed">>, RulePool, MaxRules)

ShapeDicts == ConditionsDicts(<<"k">>, [k |-> {<<"a", "A">>}], 1)

GroupByColumns == {<<"c">>, <<"k", "c">>, <<"nope">>}
AggregationColumns == {<<"v">>, <<"nope">>}
AggregationFuncs == {"sum", "max", "bogus"}

PivotArgs == {<<"k", "c", "v">>, <<"c", "k", "v">>, <<"nope", "c", "v">>,
              <<"k", "nope", "v">>, <<"k", "c", "nope">>}

UnpivotArgs == {<< <<"k">>, <<"v">> >>, << <<"k">>, <<"c", "v">> >>, << <<>>, <<"k", "v">> >>,
                << <<"k", "c">>, <<"v">> >>, << <<"nope">>, <<"v">> >>, << <<"k">>, <<"nope">> >>}

-----------------------------------------------------------------------------
(* main *)

\* lines 128-133: df = execute_query(...); original_df = df.copy()
InitWith(frames) ==
    /\ \E t \in frames : heap = <<t, t>>
    /\ df = 1
    /\ original_df = 2
    /\ pivot_df = None
    /\ report_df = None
    /\ pc = "menu"
    /\ cfg = [op |-> "none"]
    /\ error = NoError

Init == InitWith(ShapeFrames)

InitRecode == InitWith(RecodeFrames)

\* an exception is not caught by main: the program ends without a report
Finish(r) ==
    /\ heap' = r.heap
    /\ report_df' = r.ret
    /\ error' = r.err
    /\ pc' = IF r.err = NoError THEN "done" ELSE "failed"
    /\ UNCHANGED <<df, original_df, pivot_df>>

\* lines 142-147
GroupByReport ==
    /\ pc = "menu"
    /\ \E by \in GroupByColumns, cols \in AggregationColumns, func \in AggregationFuncs :
          LET aggregation_funcs == [c \in Range(cols) |-> func]
          IN /\ cfg' = [op |-> "group", group_by_columns |-> by,
                        aggregation_columns |-> cols, aggregation_funcs |-> aggregation_funcs]
             /\ Finish(group_by_report(heap, df, by, cols, aggregation_funcs))

\* lines 153-164
CaseReport(dicts) ==
    /\ pc = "menu"
    /\ \E conditions_dict \in dicts :
          /\ cfg' = [op |-> "case", conditions_dict |-> conditions_dict]
          /\ Finish(case_report_multiple_conditions(heap, df, conditions_dict))

FinishPivot(r) ==
    /\ heap' = r.heap
    /\ pivot_df' = r.ret
    /\ error' = r.err
    /\ pc' = IF r.err = NoError THEN "pivot" ELSE "failed"
    /\ UNCHANGED <<df, original_df, report_df>>

\* lines 170-174
PivotReport ==
    /\ pc = "menu"
    /\ \E a \in PivotArgs :
          /\ cfg' = [op |-> "pivot", index |-> a[1], columns |-> a[2], values |-> a[3]]
          /\ FinishPivot(pivot_report(heap, df, a[1], a[2], a[3]))

\* lines 186-189: value_vars = pivot_df.columns[1:]
UnpivotFromPivot ==
    /\ pc = "pivot"
    /\ \E id_vars \in {<<cfg.index>>, <<cfg.index, "nope">>, <<"nope">>} :
          LET value_vars == Tail(heap[pivot_df].columns)
          IN /\ cfg' = [op |-> "unpivot_from_pivot", index |-> cfg.index, columns |-> cfg.columns,
                        values |-> cfg.values, id_vars |-> id_vars, value_vars |-> value_vars]
             /\ Finish(unpivot_report_from_pivot(heap, pivot_df, id_vars, value_vars))

\* lines 197-200
UnpivotReport ==
    /\ pc = "menu"
    /\ \E a \in UnpivotArgs :
          /\ cfg' = [op |-> "unpivot", id_vars |-> a[1], value_vars |-> a[2]]
          /\ Finish(unpivot_report(heap, df, a[1], a[2]))

Next ==
    \/ GroupByReport
    \/ CaseReport(ShapeDicts)
    \/ PivotReport
    \/ UnpivotFromPivot
    \/ UnpivotReport

Spec == Init /\ [][Next]_vars

NextRecode == CaseReport(RecodeDicts)

SpecRecode == InitRecode /\ [][NextRecode]_vars

-----------------------------------------------------------------------------
(* Properties *)

In == heap[df]
Out == heap[report_df]
Pivot == heap[pivot_df]

Returned(op) == pc = "done" /\ cfg.op = op /\ error = NoError

\* position in the input of the row an output row of the case report came from
Origin(p) == Out.index[p] + 1

\* the rules of condition_map that match row i of the input in column col
Matching(col, condition_map, i) ==
    {j \in DOMAIN condition_map : Condition(Column(In, col), condition_map[j][1]).mask[i]}

Least(S) == CHOOSE j \in S : \A j2 \in S : j <= j2

\* row i of the input matched at least one rule in every configured column
MatchedEverywhere(i) ==
    \A k \in DOMAIN cfg.conditions_dict :
        Matching(cfg.conditions_dict[k][1], cfg.conditions_dict[k][2], i) # {}

Configured == {cfg.conditions_dict[k][1] : k \in DOMAIN cfg.conditions_dict}

RECURSIVE SumRows(_, _, _)
SumRows(t, col, S) ==
    IF S = {} THEN 0
    ELSE LET i == CHOOSE x \in S : TRUE
         IN (IF isna(t.data[i][col]) THEN 0 ELSE t.data[i][col].n) + SumRows(t, col, S \ {i})

\* C1: in the case report, a configured column of an output row holds the
\* result of the first rule, in declaration order, that matches the row's
\* original value; a later matching rule never overrides it.
C1_FirstMatchWins ==
    (Returned("case") /\ cfg.conditions_dict # <<>>) =>
        \A p \in DOMAIN Out.data : \A k \in DOMAIN cfg.conditions_dict :
            LET col == cfg.conditions_dict[k][1]
                condition_map == cfg.conditions_dict[k][2]
                J == Matching(col, condition_map, Origin(p))
            IN J # {} => Out.data[p][col] = Str(condition_map[Least(J)][2])

\* value 600 under [(">500","High"), (">=0","Low")] came out as "High"
C1_Witness ==
    /\ Returned("case")
    /\ \E p \in DOMAIN Out.data : \E k \in DOMAIN cfg.conditions_dict :
          /\ cfg.conditions_dict[k] = <<"speed", << <<">500", "High">>, <<">=0", "Low">> >> >>
          /\ In.data[Origin(p)]["speed"] = Num(600)
          /\ Matching("speed", cfg.conditions_dict[k][2], Origin(p)) = {1, 2}
          /\ Out.data[p]["speed"] = Str("High")

\* C2: for a non-empty rule set, the rows of the case report are exactly the
\* input rows that matched at least one rule in every configured column.
C2_RetainedIffMatched ==
    (Returned("case") /\ cfg.conditions_dict # <<>>) =>
        /\ Range(Out.index) = {In.index[i] : i \in {i \in DOMAIN In.data : MatchedEverywhere(i)}}
        /\ \A p, q \in DOMAIN Out.index : Out.index[p] = Out.index[q] => p = q

\* {"Black":"Dark","Silver":"Light"} dropped a "Red" row and kept a "Black" one
C2_Witness ==
    /\ Returned("case")
    /\ cfg.conditions_dict = << <<"color", << <<"Black", "Dark">>, <<"Silver", "Light">> >> >> >>
    /\ \E i \in DOMAIN In.data :
          In.data[i]["color"] = Str("Red") /\ In.index[i] \notin Range(Out.index)
    /\ \E i \in DOMAIN In.data :
          In.data[i]["color"] = Str("Black") /\ In.index[i] \in Range(Out.index)

\* the keys of all groups of the input, a NaN being a key value like any other
AllKeys(by) == {GroupKey(In.data[i], by) : i \in DOMAIN In.data}

RowsOfKey(by, key) == {i \in DOMAIN In.data : GroupKey(In.data[i], by) = key}

\* C3: the group-by report has exactly one row per distinct group key, NaN
\* keys included, and a summed column holds the sum over the rows of the group.
C3_OneRowPerKey ==
    Returned("group") =>
        /\ Range(Out.index) = AllKeys(cfg.group_by_columns)
        /\ Len(Out.index) = Cardinality(AllKeys(cfg.group_by_columns))
        /\ \A p \in DOMAIN Out.data : \A c \in Range(cfg.aggregation_columns) :
              cfg.aggregation_funcs[c] = "sum" =>
                  Out.data[p][c] = Num(SumRows(In, c, RowsOfKey(cfg.group_by_columns, Out.index[p])))

\* grouping by ["c"] a frame with one "x" row and two NaN rows gave two
\* groups, the NaN group summing two rows
C3_Witness ==
    /\ Returned("group")
    /\ cfg.group_by_columns = <<"c">>
    /\ cfg.aggregation_funcs["v"] = "sum"
    /\ Len(In.data) = 3
    /\ Len(Out.index) = 2
    /\ Cardinality(RowsOfKey(<<"c">>, <<NaN>>)) = 2
    /\ \E p \in DOMAIN Out.index : Out.index[p] = <<NaN>> /\ Out.data[p]["v"] = Num(4)

\* the input rows of one cell of the pivot table
RowsOfCell(index_value, label) ==
    {i \in DOMAIN In.data :
        /\ In.data[i][cfg.index] = index_value
        /\ ~isna(In.data[i][cfg.columns])
        /\ Label(In.data[i][cfg.columns]) = label}

\* C4: the pivot table leads with the index column, and each cell holds the
\* sum of the value column over the input rows of its (index, columns) pair,
\* or NaN, not zero, when the pair has no rows.
C4_PivotCells ==
    (pivot_df # None) =>
        /\ Pivot.columns[1] = cfg.index
        /\ \A p \in DOMAIN Pivot.data : \A j \in 2..Len(Pivot.columns) :
              LET rows == RowsOfCell(Pivot.data[p][cfg.index], Pivot.columns[j])
              IN Pivot.data[p][Pivot.columns[j]] =
                    IF rows = {} THEN NaN ELSE Num(SumRows(In, cfg.values, rows))

\* a pivot table with a cell summing two rows and a cell of no rows
C4_Witness ==
    /\ pc = "pivot"
    /\ \E p \in DOMAIN Pivot.data : \E j \in 2..Len(Pivot.columns) :
          /\ Cardinality(RowsOfCell(Pivot.data[p][cfg.index], Pivot.columns[j])) = 2
          /\ Pivot.data[p][Pivot.columns[j]] = Num(4)
    /\ \E p \in DOMAIN Pivot.data : \E j \in 2..Len(Pivot.columns) :
          /\ RowsOfCell(Pivot.data[p][cfg.index], Pivot.columns[j]) = {}
          /\ isna(Pivot.data[p][Pivot.columns[j]])

\* C5: unpivot of N rows over M melted columns returns N*M rows and
\* (identifier columns + 2) columns, one row per (input row, melted column)
\* with the identifiers, the column's name and the row's value.
C5_UnpivotShape ==
    Returned("unpivot") =>
        /\ Len(Out.data) = Len(In.data) * Len(cfg.value_vars)
        /\ Len(Out.columns) = Len(cfg.id_vars) + 2
        /\ \A c \in Range(Out.columns) : \A p \in DOMAIN Out.data : c \in DOMAIN Out.data[p]
        /\ \A i \in DOMAIN In.data : \A j \in DOMAIN cfg.value_vars :
              \E p \in DOMAIN Out.data :
                  /\ \A c \in Range(cfg.id_vars) : Out.data[p][c] = In.data[i][c]
                  /\ Out.data[p]["variable"] = Str(cfg.value_vars[j])
                  /\ Out.data[p]["value"] = In.data[i][cfg.value_vars[j]]

\* three rows melted over two columns, one of the values being NaN
C5_Witness ==
    /\ Returned("unpivot")
    /\ Len(In.data) = 3
    /\ Len(cfg.value_vars) = 2
    /\ Len(Out.data) = 6
    /\ \E p \in DOMAIN Out.data : isna(Out.data[p]["value"])

NonNullValues == {p \in DOMAIN Out.data : ~isna(Out.data[p]["value"])}

\* the (index, columns) groups of the input
InputGroups == {<<In.data[i][cfg.index], In.data[i][cfg.columns]>> : i \in DOMAIN In.data}

C7_GroupByRejects ==
    (pc \in {"done", "failed"} /\ cfg.op = "group"
       /\ \/ ~(Range(cfg.group_by_columns) \subseteq Range(In.columns))
          \/ ~(Range(cfg.aggregation_columns) \subseteq Range(In.columns))
          \/ \E c \in DOMAIN cfg.aggregation_funcs : cfg.aggregation_funcs[c] \notin AggFuncs) =>
        /\ pc = "failed"
        /\ error \in {KeyError, AttributeError}
        /\ report_df = None

\* all three kinds of bad group-by configuration are reached on a table with rows
C7_Witness ==
    /\ pc = "failed"
    /\ cfg.op = "group"
    /\ Len(In.data) > 0
    /\ cfg.group_by_columns = <<"nope">>
    /\ report_df = None

IsNumericRule(value) == startswith(value, "<") \/ startswith(value, ">")

\* entry k of conditions_dict puts a numeric rule on a column holding a cell
\* that is not coercible to float
Uncoercible(k) ==
    /\ cfg.conditions_dict[k][1] \in Range(In.columns)
    /\ \E j \in DOMAIN cfg.conditions_dict[k][2] : IsNumericRule(cfg.conditions_dict[k][2][j][1])
    /\ \E i \in DOMAIN In.data : ~Coercible(In.data[i][cfg.conditions_dict[k][1]])

\* entry k fails for another reason: unknown column or no rule at all
Malformed(k) ==
    \/ cfg.conditions_dict[k][1] \notin Range(In.columns)
    \/ cfg.conditions_dict[k][2] = <<>>

\* C8: the case report ends with the float conversion error exactly when a
\* numeric rule meets a cell that is not coercible to float (and no earlier
\* column already failed); the error reaches the caller and no report is
\* returned.
C8_CoercionErrorSurfaced ==
    (pc \in {"done", "failed"} /\ cfg.op = "case") =>
        /\ (\E k \in DOMAIN cfg.conditions_dict : Uncoercible(k)) => (pc = "failed" /\ report_df = None)
        /\ error = ConvertError <=>
              \E k \in DOMAIN cfg.conditions_dict :
                  Uncoercible(k) /\ \A k2 \in 1..(k - 1) : ~Malformed(k2)
        /\ error # NoError => report_df = None

\* a numeric rule met "fast" in a column that also holds coercible cells
C8_Witness ==
    /\ pc = "failed"
    /\ cfg.op = "case"
    /\ error = ConvertError
    /\ report_df = None
    /\ \E i \in DOMAIN In.data : In.data[i]["speed"] = Str("fast")
    /\ \E i \in DOMAIN In.data : In.data[i]["speed"] = Str("100")
    /\ \E k \in DOMAIN cfg.conditions_dict : cfg.conditions_dict[k][2] = << <<">500", "High">> >>

\* C9: every transform returns a new object, not its input, and leaves every
\* DataFrame that existed before the call unmodified.
C9_NewTableInputUntouched ==
    [][(pc' # pc /\ error' = NoError) =>
          /\ (IF pc' = "pivot" THEN pivot_df' ELSE report_df') \notin DOMAIN heap
          /\ \A ref \in DOMAIN heap : heap'[ref] = heap[ref]]_vars

\* C10: in the case report, the columns without rules keep the input's
\* values, rows equal on the configured columns are retained or dropped
\* together, and the retained rows keep their input order.
C10_PassThroughAndOrder ==
    (Returned("case") /\ cfg.conditions_dict # <<>>) =>
        /\ \A p \in DOMAIN Out.data : \A c \in Range(In.columns) \ Configured :
              Out.data[p][c] = In.data[Origin(p)][c]
        /\ \A i1, i2 \in DOMAIN In.data :
              (\A c \in Configured : In.data[i1][c] = In.data[i2][c]) =>
                  (In.index[i1] \in Range(Out.index) <=> In.index[i2] \in Range(Out.index))
        /\ \A p, q \in DOMAIN Out.index : p < q => Out.index[p] < Out.index[q]

\* rules on "speed" only: two retained rows of different colour around a dropped one
C10_Witness ==
    /\ Returned("case")
    /\ Configured = {"speed"}
    /\ Len(In.data) = 3
    /\ Out.index = <<0, 2>>
    /\ Out.data[1]["color"] = Str("Red")
    /\ Out.data[2]["color"] = Str("Black")

====
